---- MODULE Spec2Model ----
(***************************************************************************)
(* ModelSharder (colossalai/shardformer/shard/sharder.py): the one-time    *)
(* pass that injects the policy's model class and then walks the module    *)
(* tree, slicing and replacing the layers the policy names.                *)
(***************************************************************************)
EXTENDS Integers, Sequences, FiniteSets, TLC

VARIABLES
    pc,             \* position of the shard() call
    err,            \* the exception that left shard(), "none" while there is none
    modelCls,       \* model.__class__
    classTable,     \* model.__class__'s attribute table: key -> defining class
    cls,            \* class of every node of the module tree
    attrs,          \* the scalar attribute attr_dict overrides, per node
    params,         \* weight, bias, size attributes and constructor arguments, per leaf layer
    policy,         \* argument_policy(): the origin classes, in declared order
    world_size,     \* shard_config.world_size
    rank,           \* partition index of this process
    ruleIdx,        \* index of the rule replace_layer is at
    stack,          \* nodes reverse_replace_layer has still to visit, in order
    cur,            \* org_layer of the running shard_one_layer call
    nInstr,         \* slice instructions the pass has taken so far
    gather_output,  \* the local gather_output of shard_one_layer
    binding_map,    \* self.binding_map
    callLog,        \* the shard_one_layer invocations so far
    last            \* what the iteration of shard_one_layer just run did

vars == <<pc, err, modelCls, classTable, cls, attrs, params, policy, world_size, rank, ruleIdx,
          stack, cur, nInstr, gather_output, binding_map, callLog, last>>

\* ---------------------------------------------------------------- bounds
\* slice instructions the policy's param_funcs return over one pass, at most
MaxInstr == 2

WorldSizes == {2}

\* ---------------------------------------------------------------- the module tree
\* 0 is the model; 1, 2 and 4 are blocks; 3 and 5 are parameter layers.
\*    0 -+- a: 1 -+- dense: 3
\*       |        +- sub:   4 --- dense: 5
\*       +- b: 2
Nodes == 0 .. 5
Root == 0
Leaves == {3, 5}
Blocks == {1, 2, 4}

\* named_children(), in iteration order
Children(n) ==
    CASE n = 0 -> <<1, 2>>
      [] n = 1 -> <<3, 4>>
      [] n = 4 -> <<5>>
      [] OTHER -> <<>>

ChildName(n) ==
    CASE n = 1 -> "a"
      [] n = 2 -> "b"
      [] n = 3 -> "dense"
      [] n = 4 -> "sub"
      [] n = 5 -> "dense"
      [] OTHER -> ""

\* the child of n named name, -1 when n has none
ChildNamed(n, name) ==
    LET hit == {i \in 1 .. Len(Children(n)) : ChildName(Children(n)[i]) = name}
    IN  IF hit = {} THEN -1 ELSE Children(n)[CHOOSE i \in hit : TRUE]

\* the proper ancestors of n
RECURSIVE Ancestors(_)
Ancestors(n) ==
    LET ps == {m \in Nodes : \E i \in 1 .. Len(Children(m)) : Children(m)[i] = n}
    IN  ps \cup UNION {Ancestors(m) : m \in ps}

BlockClasses == {"ClsA", "ClsB"}
LeafKinds == {"Linear", "Embedding", "Conv1D"}

\* ---------------------------------------------------------------- tensors
\* A tensor is a window of an original parameter: rows r0 .. r1-1 and columns
\* c0 .. c1-1 of the tensor id (a bias has one dimension and no columns).
NoneT == [id |-> <<"None", 0>>, dim |-> 0, r0 |-> 0, r1 |-> 0, c0 |-> 0, c1 |-> 0]
AbsentT == [id |-> <<"absent", 0>>, dim |-> 0, r0 |-> 0, r1 |-> 0, c0 |-> 0, c1 |-> 0]
\* the parameter a constructor initialises, of the given shape
FreshT(d, rows, cols) ==
    [id |-> <<"fresh", 0>>, dim |-> d, r0 |-> 0, r1 |-> rows, c0 |-> 0, c1 |-> cols]

IsNone(t) == t.id[1] = "None"
IsAbsent(t) == t.id[1] = "absent"
\* tensor.shape[0], tensor.shape[1]
Shape0(t) == t.r1 - t.r0
Shape1(t) == t.c1 - t.c0

NoPair == [weight |-> AbsentT, bias |-> AbsentT]
NoCtor == [cls |-> "None", a0 |-> -1, a1 |-> -1, bias |-> FALSE,
           gather_output |-> -1, padding_idx |-> -1]

\* A leaf layer as its class constructs it; -1 is an attribute the class does not have.
LeafInit(n, kind) ==
    CASE kind = "Linear" ->
            LET out == IF n = 3 THEN 8 ELSE 6
            IN
            [weight |-> [id |-> <<"w", n>>, dim |-> 2, r0 |-> 0, r1 |-> out, c0 |-> 0, c1 |-> 4],
             bias |-> [id |-> <<"b", n>>, dim |-> 1, r0 |-> 0, r1 |-> out, c0 |-> 0, c1 |-> 0],
             out_features |-> out, in_features |-> 4, padding_idx |-> -1, ctor |-> NoCtor]
      [] kind = "Embedding" ->
            [weight |-> [id |-> <<"w", n>>, dim |-> 2, r0 |-> 0, r1 |-> 6, c0 |-> 0, c1 |-> 4],
             bias |-> AbsentT,
             out_features |-> -1, in_features |-> -1, padding_idx |-> 0, ctor |-> NoCtor]
      [] OTHER ->
            [weight |-> [id |-> <<"w", n>>, dim |-> 2, r0 |-> 0, r1 |-> 4, c0 |-> 0, c1 |-> 6],
             bias |-> [id |-> <<"b", n>>, dim |-> 1, r0 |-> 0, r1 |-> 6, c0 |-> 0, c1 |-> 0],
             out_features |-> -1, in_features |-> -1, padding_idx |-> -1, ctor |-> NoCtor]

\* ---------------------------------------------------------------- the policy
\* inject_policy(): (org_model_cls, shard_model_cls) and the keys of their tables
OrgModelCls == "ClsA"
ShardModelCls == "ClsA_"
OrgKeys == {"forward", "helper"}
ShardKeys == {"forward", "extra"}

\* argument_policy()[origin].attr_dict and .binding_layers
AttrDict(origin) == IF origin = "ClsA" THEN 1 ELSE 2
BindingLayers(origin) == IF origin = "ClsA" THEN <<"Linear", "Embedding">> ELSE <<"Embedding">>
BoundClasses == {"Linear", "Embedding"}

\* A slice instruction (Row_Layer, Col_Layer); an attribute path is the sequence of
\* its dotted components, <<>> for None.  gather_output is a field of Col_Layer only.
Paths(attr) == {<<>>, <<"dense", attr>>}
AllInstructions ==
    {[kind |-> k, weight |-> w, bias |-> b, replace_layer |-> r, ignore |-> i, gather_output |-> g] :
        k \in {"Row_Layer", "Col_Layer"}, w \in Paths("weight"), b \in Paths("bias"),
        r \in {"None", "Linear1D_Row", "Linear1D_Col", "Embedding1D"},
        i \in BOOLEAN, g \in {-1, 0, 1}}
Instructions ==
    {ins \in AllInstructions :
        /\ (ins.kind = "Col_Layer") <=> (ins.gather_output # -1)
        /\ ins.weight # <<>> \/ ins.bias # <<>>}

\* ---------------------------------------------------------------- utils (dotted paths)
Attr(p, name) ==
    CASE name = "weight" -> p.weight
      [] name = "bias" -> p.bias
      [] OTHER -> AbsentT

\* getattr_(n, path) for a two-component path; AbsentT when a component is missing
getattr_(n, path, ps) ==
    LET c == ChildNamed(n, path[1])
    IN  IF c \in Leaves THEN Attr(ps[c], path[2]) ELSE AbsentT

hasattr_(n, path, ps) == ~IsAbsent(getattr_(n, path, ps))

\* setattr_(n, k, v, ignore=True) on the scalar attributes: a node without the
\* attribute is passed over
setattr_(at, n, v) == [at EXCEPT ![n] = IF @ # -1 THEN v ELSE @]

\* ---------------------------------------------------------------- Slicer
\* tensor.chunk(world_size, dim)[rank]
Chunk(t, axis, ws, rk) ==
    IF axis = 0
    THEN [t EXCEPT !.r0 = t.r0 + rk * (Shape0(t) \div ws),
                   !.r1 = t.r0 + (rk + 1) * (Shape0(t) \div ws)]
    ELSE [t EXCEPT !.c0 = t.c0 + rk * (Shape1(t) \div ws),
                   !.c1 = t.c0 + (rk + 1) * (Shape1(t) \div ws)]

Divisible(t, axis, ws) ==
    IsNone(t) \/ (IF axis = 0 THEN Shape0(t) ELSE Shape1(t)) % ws = 0

\* slice_weight_bias(weight, bias, policy_layer_cls): row-wise splits the first dimension
\* of weight and bias, column-wise the last dimension of weight; None passes through
slice_weight_bias(weight, bias, kind, ws, rk) ==
    LET axis == IF kind = "Row_Layer" THEN 0 ELSE 1
        ok == Divisible(weight, axis, ws) /\ (kind = "Row_Layer" => Divisible(bias, 0, ws))
    IN  IF ~ok
        THEN [err |-> "ShapeMismatchError", weight |-> weight, bias |-> bias]
        ELSE [err |-> "none",
              weight |-> IF IsNone(weight) THEN weight ELSE Chunk(weight, axis, ws, rk),
              bias |-> IF IsNone(bias) \/ kind # "Row_Layer" THEN bias ELSE Chunk(bias, 0, ws, rk)]

\* ---------------------------------------------------------------- ModelSharder
\* set_layer_size(layer, layer_attr, size) on the layer p that layer_attr names:
\* shape[0] -> out_features, shape[1] -> in_features, where the attribute exists
set_layer_size(p, size0, size1) ==
    [p EXCEPT !.out_features = IF @ # -1 THEN size0 ELSE @,
              !.in_features = IF @ # -1 THEN size1 ELSE @]

\* The second positional argument of set_param: a str, or whatever the caller passed.
StrArg(path) == [isStr |-> TRUE, path |-> path, tensor |-> NoneT]
TensorArg(t) == [isStr |-> FALSE, path |-> <<>>, tensor |-> t]

\* set_param(layer, layer_attr, weight, bias); layer is the node the path starts at
set_param(layer, layer_attr, weight, bias, ps) ==
    IF IsNone(weight) /\ IsNone(bias)
    THEN [err |-> "AssertionError", params |-> ps]
    ELSE IF ~layer_attr.isStr
    THEN \* layer_attr + ".weight" (".bias") with layer_attr a tensor
         [err |-> "TypeError", params |-> ps]
    ELSE LET c == IF layer_attr.path = <<>> THEN layer ELSE ChildNamed(layer, layer_attr.path[1])
             p1 == IF IsNone(weight) THEN ps[c]
                   ELSE set_layer_size([ps[c] EXCEPT !.weight = weight],
                                       Shape0(weight), Shape1(weight))
             p2 == IF IsNone(bias) THEN p1 ELSE [p1 EXCEPT !.bias = bias]
         IN  [err |-> "none", params |-> [ps EXCEPT ![c] = p2]]

\* lines 153-163 without the two elif branches: a missing attribute is never an error
ResolveLenient(n, path, ignore, ps) ==
    IF path # <<>> /\ hasattr_(n, path, ps)
    THEN [err |-> "none", t |-> getattr_(n, path, ps)]
    ELSE [err |-> "none", t |-> NoneT]

\* lines 153-163: the tensor a declared path resolves to; "missing" when the path is
\* declared, absent from org_layer and ignore is not set
Resolve(n, path, ignore, ps) ==
    IF path = <<>> THEN [err |-> "none", t |-> NoneT]
    ELSE IF hasattr_(n, path, ps) THEN [err |-> "none", t |-> getattr_(n, path, ps)]
    ELSE IF ~ignore THEN [err |-> "ValueError", t |-> NoneT]
    ELSE [err |-> "none", t |-> NoneT]

\* line 166 with the flag inverted
SkipsUnlessIgnore(weight, bias, ignore) == IsNone(weight) /\ IsNone(bias) /\ ~ignore

\* line 166
Skips(weight, bias, ignore) == IsNone(weight) /\ IsNone(bias) /\ ignore

\* line 171: x[:x.rfind(".")] of weight_attr or bias_attr
LayerAttr(ins) ==
    LET x == IF ins.weight # <<>> THEN ins.weight ELSE ins.bias
    IN  SubSeq(x, 1, Len(x) - 1)

\* lines 149-151
GatherOutput(ins, go) == IF ins.kind = "Col_Layer" THEN ins.gather_output ELSE go

\* lines 177-178
Bind(bm, binding_layers, pair) ==
    [k \in DOMAIN bm |->
        IF \E i \in 1 .. Len(binding_layers) : binding_layers[i] = k THEN pair ELSE bm[k]]

\* line 185 with the two sizes in the order of line 187
NewLinear1D_RowSwapped(weight, bias) ==
    [cls |-> "Linear1D_Row", a0 |-> Shape0(weight), a1 |-> Shape1(weight),
     bias |-> ~IsNone(bias), gather_output |-> -1, padding_idx |-> -1]

\* line 185
NewLinear1D_Row(weight, bias) ==
    [cls |-> "Linear1D_Row", a0 |-> Shape1(weight), a1 |-> Shape0(weight),
     bias |-> ~IsNone(bias), gather_output |-> -1, padding_idx |-> -1]

\* line 187
NewLinear1D_Col(weight, bias, go) ==
    [cls |-> "Linear1D_Col", a0 |-> Shape0(weight), a1 |-> Shape1(weight),
     bias |-> ~IsNone(bias), gather_output |-> go, padding_idx |-> -1]

\* line 191
NewEmbedding(replace_layer_cls, weight, padding_idx) ==
    [cls |-> replace_layer_cls, a0 |-> Shape0(weight), a1 |-> Shape1(weight),
     bias |-> FALSE, gather_output |-> -1, padding_idx |-> padding_idx]

\* the layer a replacement constructor returns
Constructed(ctor) ==
    [weight |-> FreshT(2, 0, 0), bias |-> IF ctor.bias THEN FreshT(1, 0, 0) ELSE NoneT,
     out_features |-> -1, in_features |-> -1, padding_idx |-> ctor.padding_idx, ctor |-> ctor]

\* lines 188-189 and 192-193: setattr_(org_layer, layer_attr, replace_layer), then
\* set_param(replace_layer, weight, bias)
Install(c, ctor, weight, bias, st) ==
    LET ps1 == [st.params EXCEPT ![c] = Constructed(ctor)]
        sp == set_param(c, TensorArg(weight), bias, NoneT, ps1)
    IN  [err |-> sp.err, cls |-> [st.cls EXCEPT ![c] = ctor.cls], params |-> sp.params,
         ctor |-> ctor]

\* lines 181-198
Replace(n, ins, weight, bias, go, st) ==
    LET layer_attr == LayerAttr(ins)
        c == ChildNamed(n, layer_attr[1])
        keep == [err |-> "none", cls |-> st.cls, params |-> st.params, ctor |-> NoCtor]
    IN  IF ins.replace_layer = "None"
        THEN LET sp == set_param(n, StrArg(layer_attr), weight, bias, st.params)
             IN  [keep EXCEPT !.err = sp.err, !.params = sp.params]
        ELSE IF st.cls[c] = "Linear"
        THEN CASE ins.replace_layer = "Linear1D_Row" ->
                    Install(c, NewLinear1D_Row(weight, bias), weight, bias, st)
               [] ins.replace_layer = "Linear1D_Col" ->
                    IF go = -1
                    THEN [keep EXCEPT !.err = "UnboundLocalError: gather_output"]
                    ELSE Install(c, NewLinear1D_Col(weight, bias, go), weight, bias, st)
               [] OTHER -> [keep EXCEPT !.err = "UnboundLocalError: replace_layer"]
        ELSE IF st.cls[c] = "Embedding"
        THEN Install(c, NewEmbedding(ins.replace_layer, weight, st.params[c].padding_idx),
                     weight, bias, st)
        ELSE [keep EXCEPT !.err = "NotImplementedError"]

\* One iteration of the loops of shard_one_layer (lines 143-198) on org_layer n, from
\* st = [cls, params, gather_output, binding_map].
shard_one_layer(n, ins, binding_layers, st, ws, rk) ==
    LET go == GatherOutput(ins, st.gather_output)
        w == Resolve(n, ins.weight, ins.ignore, st.params)
        b == Resolve(n, ins.bias, ins.ignore, st.params)
        sl == slice_weight_bias(w.t, b.t, ins.kind, ws, rk)
        pair == [weight |-> sl.weight, bias |-> sl.bias]
        bm == Bind(st.binding_map, binding_layers, pair)
        rp == Replace(n, ins, sl.weight, sl.bias, go, st)
        stop == [err |-> "none", outcome |-> "raised", cls |-> st.cls, params |-> st.params,
                 gather_output |-> go, binding_map |-> st.binding_map, shard |-> NoPair,
                 sliced |-> FALSE, ctor |-> NoCtor]
    IN  IF w.err # "none" THEN [stop EXCEPT !.err = w.err]
        ELSE IF b.err # "none" THEN [stop EXCEPT !.err = b.err]
        ELSE IF Skips(w.t, b.t, ins.ignore) THEN [stop EXCEPT !.outcome = "skipped"]
        ELSE IF IsNone(w.t) /\ IsNone(b.t) THEN [stop EXCEPT !.err = "AssertionError"]
        ELSE IF sl.err # "none" THEN [stop EXCEPT !.err = sl.err, !.sliced = TRUE]
        ELSE IF IsNone(sl.weight)
        THEN \* line 175: weight.shape
             [stop EXCEPT !.err = "AttributeError", !.sliced = TRUE, !.shard = pair]
        ELSE [err |-> rp.err,
              outcome |-> IF rp.err # "none" THEN "raised"
                          ELSE IF ins.replace_layer = "None" THEN "installed" ELSE "replaced",
              cls |-> rp.cls, params |-> rp.params, gather_output |-> go,
              binding_map |-> bm, shard |-> pair, sliced |-> TRUE, ctor |-> rp.ctor]

\* line 61 without the comparison: every model is taken for the policy's
ClassMatchesAny(c) == TRUE

\* line 61
ClassMatches(c) == c = OrgModelCls

\* lines 62-68: the class table after the keys of shard_model_cls the class has are rebound
Inject(table) ==
    [k \in DOMAIN table |-> IF k \in ShardKeys THEN ShardModelCls ELSE table[k]]

\* line 112
Matches(child, origin_cls, cl) == cl[child] = origin_cls

\* lines 114-115: for k, v in attr_dict.items(): setattr_(child, k, v, ignore=True)
Override(child, origin_cls, at) == setattr_(at, child, AttrDict(origin_cls))

\* line 119 without the continue: a matched child is recursed into as well
AfterMatchDescend(child, rest) == Children(child) \o rest

\* lines 119 and 121: what is left to visit after a matched child, after any other child
AfterMatch(child, rest) == rest
AfterOther(child, rest) == Children(child) \o rest

\* ---------------------------------------------------------------- the state machine
NoIns == [kind |-> "None", weight |-> <<>>, bias |-> <<>>, replace_layer |-> "None",
          ignore |-> FALSE, gather_output |-> -1]
NoLast == [node |-> -1, ins |-> NoIns, outcome |-> "none", sliced |-> FALSE, shard |-> NoPair,
           ctor |-> NoCtor, preCls |-> <<>>, preParams |-> <<>>, preBinding |-> <<>>,
           preGather |-> -1]

\* the nodes that have the attribute attr_dict names
HasAttr(n) == n \in {1, 4}

Policies == {<<"ClsA">>, <<"ClsB">>, <<"ClsA", "ClsB">>, <<"ClsB", "ClsA">>}

Init ==
    /\ pc = "start"
    /\ err = "none"
    /\ modelCls \in {OrgModelCls, "ClsB"}
    /\ classTable = [k \in OrgKeys |-> modelCls]
    /\ cls \in {f \in [Nodes -> BlockClasses \cup LeafKinds] :
                  /\ f[Root] = modelCls
                  /\ f[1] \in BlockClasses
                  /\ f[2] = "ClsA"
                  /\ f[4] \in BlockClasses
                  /\ f[3] \in LeafKinds
                  /\ f[5] = "Linear"}
    /\ attrs = [n \in Nodes |-> IF HasAttr(n) THEN 4 ELSE -1]
    /\ params = [n \in Leaves |-> LeafInit(n, cls[n])]
    /\ policy \in Policies
    /\ world_size \in WorldSizes
    /\ rank \in 0 .. world_size - 1
    /\ ruleIdx = 0
    /\ stack = <<>>
    /\ cur = -1
    /\ nInstr = 0
    /\ gather_output = -1
    /\ binding_map = [k \in BoundClasses |-> NoPair]
    /\ callLog = <<>>
    /\ last = NoLast

tree == <<cls, attrs, params>>
config == <<modelCls, policy, world_size, rank>>
walk == <<ruleIdx, stack, cur, nInstr, gather_output>>

\* shard(), line 41: inject_model(self.model) on a model of the policy's class
inject_model ==
    /\ pc = "start"
    /\ ClassMatches(modelCls)
    /\ classTable' = Inject(classTable)
    /\ pc' = "replace"
    /\ UNCHANGED <<err, tree, config, walk, binding_map, callLog, last>>

\* line 70
inject_model_raise ==
    /\ pc = "start"
    /\ ~ClassMatches(modelCls)
    /\ err' = "NotImplementedError: model"
    /\ pc' = "failed"
    /\ UNCHANGED <<classTable, tree, config, walk, binding_map, callLog, last>>

\* replace_layer, lines 84-91: the next argument policy, in the policy's order
replace_layer ==
    /\ pc = "replace"
    /\ ruleIdx < Len(policy)
    /\ ruleIdx' = ruleIdx + 1
    /\ stack' = Children(Root)
    /\ pc' = "walk"
    /\ UNCHANGED <<err, classTable, tree, config, cur, nInstr, gather_output, binding_map,
                   callLog, last>>

\* replace_layer returns, and shard() with it
shard_return ==
    /\ pc = "replace"
    /\ ruleIdx = Len(policy)
    /\ pc' = "done"
    /\ UNCHANGED <<err, classTable, tree, config, walk, binding_map, callLog, last>>

\* reverse_replace_layer, lines 112-119: the next child is of the origin class
visit_match ==
    /\ pc = "walk"
    /\ stack # <<>>
    /\ LET child == Head(stack)
           origin_cls == policy[ruleIdx]
       IN  /\ Matches(child, origin_cls, cls)
           /\ attrs' = Override(child, origin_cls, attrs)
           /\ callLog' = Append(callLog, [rule |-> ruleIdx, node |-> child,
                                          attr |-> attrs'[child]])
           /\ cur' = child
           /\ stack' = AfterMatch(child, Tail(stack))
    /\ gather_output' = -1
    /\ pc' = "layer"
    /\ UNCHANGED <<err, classTable, cls, params, config, ruleIdx, nInstr, binding_map, last>>

\* reverse_replace_layer, line 121: any other child is recursed into
visit_other ==
    /\ pc = "walk"
    /\ stack # <<>>
    /\ LET child == Head(stack)
       IN  /\ ~Matches(child, policy[ruleIdx], cls)
           /\ stack' = AfterOther(child, Tail(stack))
    /\ UNCHANGED <<pc, err, classTable, tree, config, ruleIdx, cur, nInstr, gather_output,
                   binding_map, callLog, last>>

\* the outermost reverse_replace_layer returns
walk_return ==
    /\ pc = "walk"
    /\ stack = <<>>
    /\ pc' = "replace"
    /\ UNCHANGED <<err, classTable, tree, config, walk, binding_map, callLog, last>>

\* shard_one_layer, lines 142-198: the next policy_layer of func()
policy_layer(ins) ==
    /\ pc = "layer"
    /\ nInstr < MaxInstr
    /\ LET st == [cls |-> cls, params |-> params, gather_output |-> gather_output,
                  binding_map |-> binding_map]
           r == shard_one_layer(cur, ins, BindingLayers(policy[ruleIdx]), st, world_size, rank)
       IN  /\ cls' = r.cls
           /\ params' = r.params
           /\ gather_output' = r.gather_output
           /\ binding_map' = r.binding_map
           /\ err' = r.err
           /\ pc' = IF r.err = "none" THEN "instr" ELSE "failed"
           /\ last' = [node |-> cur, ins |-> ins, outcome |-> r.outcome, sliced |-> r.sliced,
                       shard |-> r.shard, ctor |-> r.ctor, preCls |-> cls,
                       preParams |-> params, preBinding |-> binding_map,
                       preGather |-> gather_output]
    /\ nInstr' = nInstr + 1
    /\ UNCHANGED <<classTable, attrs, config, ruleIdx, stack, cur, callLog>>

\* the loop goes on to its next iteration
next_policy_layer ==
    /\ pc = "instr"
    /\ pc' = "layer"
    /\ last' = NoLast
    /\ UNCHANGED <<err, classTable, tree, config, walk, binding_map, callLog>>

\* shard_one_layer returns: param_funcs is exhausted
shard_one_layer_return ==
    /\ pc = "layer"
    /\ pc' = "walk"
    /\ cur' = -1
    /\ gather_output' = -1
    /\ UNCHANGED <<err, classTable, tree, config, ruleIdx, stack, nInstr, binding_map, callLog,
                   last>>

Next ==
    \/ inject_model
    \/ inject_model_raise
    \/ replace_layer
    \/ shard_return
    \/ visit_match
    \/ visit_other
    \/ walk_return
    \/ \E ins \in Instructions : policy_layer(ins)
    \/ next_policy_layer
    \/ shard_one_layer_return

Spec == Init /\ [][Next]_vars

\* ---------------------------------------------------------------- properties
\* an attribute that is missing reads as None
Val(t) == IF IsAbsent(t) THEN NoneT ELSE t

\* an iteration of shard_one_layer has just run
Ran == last.node # -1
\* the node at layer_attr of that iteration, -1 when org_layer has none
Target == ChildNamed(last.node, LayerAttr(last.ins)[1])
\* the slicer returned a shard pair in that iteration
Sliced == Ran /\ last.sliced /\ last.shard # NoPair
\* a declared path of that iteration that org_layer did not have
Missing(path) == path # <<>> /\ ~hasattr_(last.node, path, last.preParams)

InitialTable == [k \in OrgKeys |-> modelCls]
InitialParams == [n \in Leaves |-> LeafInit(n, cls[n])]
InitialAttrs == [n \in Nodes |-> IF HasAttr(n) THEN 4 ELSE -1]
EmptyBinding == [k \in BoundClasses |-> NoPair]

\* C1: a model whose class is not the policy's origin class makes shard() fail in
\* inject_model with the unsupported-model error; the class table is then unmodified,
\* replace_layer has not run, no node has changed and the binding map is empty.
C1_UnsupportedModel ==
    modelCls # OrgModelCls =>
        /\ pc \in {"start", "failed"}
        /\ pc = "failed" => err = "NotImplementedError: model"
        /\ classTable = InitialTable
        /\ ruleIdx = 0 /\ callLog = <<>> /\ ~Ran
        /\ cls[3] \in LeafKinds /\ cls[5] = "Linear"
        /\ params = InitialParams /\ attrs = InitialAttrs
        /\ binding_map = EmptyBinding

C1_Witness == modelCls # OrgModelCls /\ pc = "failed" /\ err = "NotImplementedError: model"

\* C2: after a complete pass every layer of a class that binding_layers lists holds the
\* weight and bias last sliced for that binding key.
C2_BoundLayersHoldLastShard ==
    pc = "done" =>
        \A n \in Leaves : \A k \in BoundClasses :
            (cls[n] = k /\ binding_map[k] # NoPair) =>
                /\ Val(params[n].weight) = binding_map[k].weight
                /\ Val(params[n].bias) = binding_map[k].bias

\* the replacement class is the one meant for the layer and the instruction
Fits ==
    \/ last.preCls[Target] = "Linear" /\ last.ins.replace_layer = "Linear1D_Row"
    \/ last.preCls[Target] = "Linear" /\ last.ins.replace_layer = "Linear1D_Col"
                                      /\ last.ins.kind = "Col_Layer"
    \/ last.preCls[Target] = "Embedding" /\ last.ins.replace_layer = "Embedding1D"

\* C3: an instruction that names a replacement class for a linear or embedding layer
\* leaves the new instance at layer_attr with the weight shard and the bias shard (no
\* bias when the bias shard is None), without error.
C3_ReplacementHoldsShards ==
    (Sliced /\ ~IsNone(last.shard.weight) /\ Fits) =>
        /\ err = "none"
        /\ cls[Target] = last.ins.replace_layer
        /\ params[Target].ctor = last.ctor /\ last.ctor # NoCtor
        /\ params[Target].weight = last.shard.weight
        /\ params[Target].bias = last.shard.bias

\* C4: an instruction that names no replacement class leaves the node at layer_attr with
\* its class, with the tensors of the shard pair (a None member installs nothing), and
\* with the out_features / in_features it has equal to the weight shard's rows / columns.
C4_InPlaceHoldsShards ==
    (Sliced /\ last.ins.replace_layer = "None") =>
        /\ err = "none"
        /\ cls[Target] = last.preCls[Target]
        /\ ~IsNone(last.shard.weight) =>
              /\ params[Target].weight = last.shard.weight
              /\ params[Target].out_features \in {-1, Shape0(last.shard.weight)}
              /\ params[Target].in_features \in {-1, Shape1(last.shard.weight)}
              /\ (params[Target].out_features = -1) = (last.preParams[Target].out_features = -1)
              /\ (params[Target].in_features = -1) = (last.preParams[Target].in_features = -1)
        /\ ~IsNone(last.shard.bias) => params[Target].bias = last.shard.bias

\* C5: an instruction with ignore set, none of whose declared attributes the matched
\* node has, replaces nothing, leaves the node as it was and raises nothing.
C5_IgnoredIsNoOp ==
    (/\ Ran /\ last.ins.ignore
     /\ last.ins.weight # <<>> => Missing(last.ins.weight)
     /\ last.ins.bias # <<>> => Missing(last.ins.bias)) =>
        /\ err = "none" /\ pc = "instr"
        /\ last.outcome = "skipped"
        /\ cls = last.preCls /\ params = last.preParams
        /\ binding_map = last.preBinding
        /\ ~last.sliced

C5_Witness ==
    /\ Ran /\ last.ins.ignore /\ last.outcome = "skipped"
    /\ last.ins.weight # <<>> /\ Missing(last.ins.weight)
    /\ last.ins.replace_layer # "None"

\* C6: without ignore, a declared weight or bias path the matched node lacks raises the
\* missing-attribute error before the slicer is called: nothing is written to the binding
\* map or the node, shard() fails and no later node is processed.
C6_MissingAttributeRaises ==
    (Ran /\ ~last.ins.ignore /\ (Missing(last.ins.weight) \/ Missing(last.ins.bias))) =>
        /\ err = "ValueError" /\ pc = "failed"
        /\ ~last.sliced
        /\ binding_map = last.preBinding
        /\ cls = last.preCls /\ params = last.preParams
        /\ cur = last.node /\ callLog[Len(callLog)].node = last.node

C6_Witness ==
    /\ Ran /\ ~last.ins.ignore /\ err = "ValueError"
    /\ ~Missing(last.ins.weight) /\ Missing(last.ins.bias)
    /\ stack # <<>>

\* the nodes of the subtrees of a sequence of nodes, in pre-order
RECURSIVE PreOrder(_)
PreOrder(ns) ==
    IF ns = <<>> THEN <<>>
    ELSE <<Head(ns)>> \o PreOrder(Children(Head(ns))) \o PreOrder(Tail(ns))

IsPrefix(s, t) == Len(s) <= Len(t) /\ SubSeq(t, 1, Len(s)) = s

\* the nodes shard_one_layer was invoked on under rule r, in invocation order
CallsOf(r) ==
    LET es == SelectSeq(callLog, LAMBDA e : e.rule = r)
    IN  [i \in 1 .. Len(es) |-> es[i].node]

\* the traversal of rule r has returned
RuleDone(r) == ruleIdx > r \/ (ruleIdx = r /\ pc \in {"replace", "done"})

\* nodes of class origin_cls with no proper ancestor of that class, the root aside
TopmostBelowRoot(origin_cls) ==
    SelectSeq(PreOrder(<<Root>>),
              LAMBDA n : /\ n # Root
                         /\ cls[n] = origin_cls
                         /\ \A a \in Ancestors(n) \ {Root} : cls[a] # origin_cls)

\* nodes of class origin_cls with no proper ancestor of that class, the root included
Topmost(origin_cls) ==
    SelectSeq(PreOrder(<<Root>>),
              LAMBDA n : cls[n] = origin_cls /\ \A a \in Ancestors(n) : cls[a] # origin_cls)

\* the invocations are in the policy's order, each on a node of its rule's class and
\* after the rule's attr_dict was applied to the node
LogInOrder ==
    /\ \A i \in 1 .. Len(callLog) :
          /\ callLog[i].rule \in 1 .. ruleIdx
          /\ cls[callLog[i].node] = policy[callLog[i].rule]
          /\ callLog[i].attr = IF HasAttr(callLog[i].node) THEN AttrDict(policy[callLog[i].rule])
                               ELSE -1
    /\ \A i, j \in 1 .. Len(callLog) : i < j => callLog[i].rule <= callLog[j].rule

\* C7 as stated: under each rule shard_one_layer is invoked exactly once on every node of
\* the tree, the root included, that is of the origin class and has no proper ancestor of
\* it, in pre-order, after the overrides, rule after rule in the policy's order.
C7_TopmostWithRoot ==
    /\ LogInOrder
    /\ \A r \in 1 .. Len(policy) : RuleDone(r) => CallsOf(r) = Topmost(policy[r])

\* C7 amended: the root is never matched; the nodes invoked on are those below the root
\* that are of the origin class with no ancestor of it other than, possibly, the root.
\* A pass that fails stops in a prefix of that order.
C7_TopmostBelowRoot ==
    /\ LogInOrder
    /\ \A r \in 1 .. Len(policy) :
          /\ IsPrefix(CallsOf(r), TopmostBelowRoot(policy[r]))
          /\ RuleDone(r) => CallsOf(r) = TopmostBelowRoot(policy[r])

C7_Witness ==
    /\ pc = "done" /\ Len(policy) = 2
    /\ cls[1] = "ClsA" /\ cls[4] = "ClsA"
    /\ policy[1] = "ClsA" /\ CallsOf(1) = <<1, 2>>
    /\ nInstr > 0

\* a linear layer's replacement was constructed in the iteration just run
Built(c) == Ran /\ last.ctor.cls = c /\ last.preCls[Target] = "Linear"

C9_LastWriteWins ==
    Sliced =>
        \A k \in BoundClasses :
            binding_map[k] = IF \E i \in 1 .. Len(BindingLayers(policy[ruleIdx])) :
                                    BindingLayers(policy[ruleIdx])[i] = k
                             THEN last.shard
                             ELSE last.preBinding[k]

\* C10: a Linear1D_Col replacement is constructed with the gather_output of the
\* instruction being processed, never with an earlier one's and never with none.
C10_GatherOutputIsCurrent ==
    (/\ Sliced /\ ~IsNone(last.shard.weight)
     /\ last.ins.replace_layer = "Linear1D_Col" /\ last.preCls[Target] = "Linear") =>
        /\ Built("Linear1D_Col")
        /\ last.ins.kind = "Col_Layer"
        /\ last.ctor.gather_output = last.ins.gather_output

====
